---- MODULE Spec2Model ----
(***************************************************************************)
(* A model of the mammography preprocessing scripts:                       *)
(*   dicom_to_png.py      normalisation, crop_borders, resize_with_padding, *)
(*                        dicom_to_png, extract_lesions,                   *)
(*                        process_dicom_folder                             *)
(*   train_test_split.py  the move of lesion PNGs into training/ and test/ *)
(***************************************************************************)
EXTENDS Integers, Sequences, FiniteSets, TLC

(***************************************************************************)
(* IEEE-754 binary64 arithmetic on the operands the scripts use.           *)
(* A positive double is [m, e]: m is its 53-bit significand, most          *)
(* significant bit first, and its value is m * 2^e.  Zero has m = <<>>.    *)
(* Python's int / int, int * float and numpy's float64 / and * are all     *)
(* correctly rounded (round to nearest, ties to even).                     *)
(***************************************************************************)
MantBits == 53

FZero == [m |-> <<>>, e |-> 0]

RECURSIVE Pow2(_)
Pow2(k) == IF k = 0 THEN 1 ELSE 2 * Pow2(k - 1)

\* 2^k mod d by repeated squaring
RECURSIVE Pow2Mod(_, _)
Pow2Mod(k, d) ==
    IF k = 0 THEN 1 % d
    ELSE LET h == Pow2Mod(k \div 2, d)
         IN  (((h * h) % d) * (IF k % 2 = 1 THEN 2 ELSE 1)) % d

RECURSIVE BitsToInt(_)
BitsToInt(bits) ==
    IF bits = <<>> THEN 0
    ELSE 2 * BitsToInt(SubSeq(bits, 1, Len(bits) - 1)) + bits[Len(bits)]

\* n as exactly `width` bits, most significant first
BitsOf(n, width) == [i \in 1..width |-> (n \div Pow2(width - i)) % 2]

StripZeros(bits) ==
    LET ones == {i \in 1..Len(bits) : bits[i] = 1}
    IN  IF ones = {} THEN <<>>
        ELSE SubSeq(bits, CHOOSE i \in ones : \A j \in ones : i <= j, Len(bits))

\* bits + 1, one bit longer when every bit was 1
IncBits(bits) ==
    LET zeros == {i \in 1..Len(bits) : bits[i] = 0}
    IN  IF zeros = {} THEN <<1>> \o [i \in 1..Len(bits) |-> 0]
        ELSE LET p == CHOOSE i \in zeros : \A j \in zeros : j <= i
             IN  [i \in 1..Len(bits) |->
                    IF i < p THEN bits[i] ELSE IF i = p THEN 1 ELSE 0]

\* round the bit string `bits` (value bits * 2^e) to MantBits bits, ties to even
RoundBits(bits, e) ==
    IF Len(bits) <= MantBits
    THEN [m |-> bits \o [i \in 1..(MantBits - Len(bits)) |-> 0],
          e |-> e - (MantBits - Len(bits))]
    ELSE LET drop   == Len(bits) - MantBits
             kept   == SubSeq(bits, 1, MantBits)
             guard  == bits[MantBits + 1]
             sticky == \E i \in (MantBits + 2)..Len(bits) : bits[i] = 1
             up     == guard = 1 /\ (sticky \/ kept[MantBits] = 1)
             r      == IF up THEN IncBits(kept) ELSE kept
         IN  IF Len(r) > MantBits
             THEN [m |-> SubSeq(r, 1, MantBits), e |-> e + drop + 1]
             ELSE [m |-> r, e |-> e + drop]

\* the remainder of rem * 2^n by d, for rem < d
DivRem(rem, d, n) == (rem * Pow2Mod(n, d)) % d

\* the next n quotient bits of rem / d, for rem < d (long division)
DivBits(rem, d, n) == [i \in 1..n |-> (2 * DivRem(rem, d, i - 1)) \div d]

\* the binary exponent of a / b: the L with 2^L <= a / b < 2^(L+1)
RECURSIVE Log2Quot(_, _)
Log2Quot(a, b) ==
    IF a < b THEN Log2Quot(2 * a, b) - 1
    ELSE IF a >= 2 * b THEN Log2Quot(a, 2 * b) + 1
    ELSE 0

\* a / b for integers a >= 0, b > 0, correctly rounded
FDivInt(a, b) ==
    IF a = 0 THEN FZero
    ELSE LET L     == Log2Quot(a, b)
             num   == IF L < 0 THEN a * Pow2(-L) ELSE a
             den   == IF L > 0 THEN b * Pow2(L) ELSE b
             \* the leading 1, MantBits more quotient bits, and a sticky bit
             \* that records a non-zero remainder
             q     == <<1>> \o DivBits(num - den, den, MantBits)
             rest  == DivRem(num - den, den, MantBits)
             bits  == Append(q, IF rest > 0 THEN 1 ELSE 0)
         IN  RoundBits(bits, L - (Len(bits) - 1))

\* limb j (0 = least significant) of a bit string, 14 bits each
Limb(bits, j) ==
    LET hi == Len(bits) - 14 * j
        lo == IF hi - 14 + 1 < 1 THEN 1 ELSE hi - 14 + 1
    IN  IF hi < 1 THEN 0 ELSE BitsToInt(SubSeq(bits, lo, hi))

\* bits * n for a MantBits-bit string and an integer n >= 1, as a bit string
MulBits(bits, n) ==
    LET B  == Pow2(14)
        t0 == Limb(bits, 0) * n
        t1 == Limb(bits, 1) * n + t0 \div B
        t2 == Limb(bits, 2) * n + t1 \div B
        t3 == Limb(bits, 3) * n + t2 \div B
    IN  StripZeros(BitsOf(t3, 28) \o BitsOf(t2 % B, 14)
                   \o BitsOf(t1 % B, 14) \o BitsOf(t0 % B, 14))

\* n * x for an integer n >= 1 (exactly representable) and a double x
FMulInt(n, x) ==
    IF x.m = <<>> THEN FZero ELSE RoundBits(MulBits(x.m, n), x.e)

\* int(x) / astype(uint8) of a double in range: truncation toward zero
FTrunc(x) ==
    IF x.m = <<>> \/ -x.e >= MantBits THEN 0
    ELSE IF x.e >= 0 THEN BitsToInt(x.m) * Pow2(x.e)
    ELSE BitsToInt(SubSeq(x.m, 1, MantBits + x.e))

\* x < y for doubles >= 0
FLess(x, y) ==
    IF y.m = <<>> THEN FALSE
    ELSE IF x.m = <<>> THEN TRUE
    ELSE IF x.e # y.e THEN x.e < y.e
    ELSE LET diff == {i \in 1..MantBits : x.m[i] # y.m[i]}
         IN  diff # {} /\ LET i == CHOOSE k \in diff : \A j \in diff : k <= j
                          IN  x.m[i] < y.m[i]

\* Python's min(x, y): y only when y < x
FMin(x, y) == IF FLess(y, x) THEN y ELSE x

(***************************************************************************)
(* Images.  A 2-D array is [h, w, bg, px]: h rows and w columns, the       *)
(* sample px[<<y, x>>] at the positions in DOMAIN px and bg everywhere     *)
(* else (0-based, row first, as numpy indexes).  A PIL image is known by   *)
(* its size <<width, height>>; the samples a resampling filter produces    *)
(* are not modelled.                                                       *)
(***************************************************************************)
Positions(img) == (0..(img.h - 1)) \X (0..(img.w - 1))

At(img, p) == IF p \in DOMAIN img.px THEN img.px[p] ELSE img.bg

\* the sample values that occur in the array
Samples(img) ==
    {img.px[p] : p \in DOMAIN img.px}
        \cup (IF Cardinality(DOMAIN img.px) < img.h * img.w THEN {img.bg} ELSE {})

Range(s) == {s[i] : i \in DOMAIN s}

SetMin(S) == CHOOSE v \in S : \A u \in S : v <= u
SetMax(S) == CHOOSE v \in S : \A u \in S : u <= v

\* numpy / Python slice bound: a negative index counts from the end, and the
\* result is clipped to 0..n
SliceBound(i, n) ==
    LET j == IF i < 0 THEN i + n ELSE i
    IN  IF j < 0 THEN 0 ELSE IF j > n THEN n ELSE j

\* the indices a[start:stop] selects on an axis of length n
SliceIdx(start, stop, n) ==
    {i \in 0..(n - 1) : SliceBound(start, n) <= i /\ i < SliceBound(stop, n)}

SliceLen(start, stop, n) == Cardinality(SliceIdx(start, stop, n))

UInt8 == 0..255

(***************************************************************************)
(* Normalisation: dicom_to_png lines 94-96, extract_lesions lines 130-133. *)
(* The decoded samples are unsigned integers, so v - min and max - min do  *)
(* not wrap.  With max = min every sample is 0 / 0 = NaN (numpy warns and  *)
(* goes on), and the cast of NaN to uint8 is undefined: `nan` is the value *)
(* the build gives it.                                                     *)
(***************************************************************************)
\* the scaling by 256 in place of 255, which takes the maximum out of uint8
NormalizeSampleTimes256(v, mn, ptp) == FTrunc(FMulInt(256, FDivInt(v - mn, ptp))) % 256

\* lines 95-96: (v - min) / (max - min) * 255.0, then astype(np.uint8)
NormalizeSample(v, mn, ptp) == FTrunc(FMulInt(255, FDivInt(v - mn, ptp))) % 256

normalize(image_array, nan) ==
    LET mn  == SetMin(Samples(image_array))
        ptp == SetMax(Samples(image_array)) - mn
        to8(v) == IF ptp = 0 THEN nan ELSE NormalizeSample(v, mn, ptp)
    IN  [h  |-> image_array.h, w |-> image_array.w,
         \* a background no position shows stays as it is
         bg |-> IF image_array.bg \in Samples(image_array)
                THEN to8(image_array.bg) ELSE image_array.bg,
         px |-> [p \in DOMAIN image_array.px |-> to8(image_array.px[p])]]

(***************************************************************************)
(* crop_borders: lines 9-45.                                               *)
(***************************************************************************)
threshold == 10
white_threshold == 150
CornerRows == 45
CornerCols == 80

\* lines 26-29: the four corner rectangles set to 0
InCorner(p, h, w) ==
    /\ \/ p[1] \in SliceIdx(0, CornerRows, h)
       \/ p[1] \in SliceIdx(h - CornerRows, h, h)
    /\ \/ p[2] \in SliceIdx(0, CornerCols, w)
       \/ p[2] \in SliceIdx(w - CornerCols, w, w)

\* lines 24-30: rem_info at p
RemInfo(img, p) ==
    IF InCorner(p, img.h, img.w) \/ At(img, p) > white_threshold THEN 0 ELSE At(img, p)

\* line 33: the positions where mask is True.  Where the background sample is
\* not above the threshold only the positions of px can be.
Mask(img) ==
    LET bgOn == img.bg > threshold /\ img.bg <= white_threshold
    IN  {p \in (IF bgOn THEN Positions(img) ELSE DOMAIN img.px) :
            RemInfo(img, p) > threshold}

\* a[y0:y1, x0:x1] for 0 <= y0 <= y1 <= h, 0 <= x0 <= x1 <= w
SubArray(img, y0, y1, x0, x1) ==
    LET inside == {p \in DOMAIN img.px :
                      y0 <= p[1] /\ p[1] < y1 /\ x0 <= p[2] /\ p[2] < x1}
    IN  [h  |-> y1 - y0, w |-> x1 - x0, bg |-> img.bg,
         px |-> [q \in {<<p[1] - y0, p[2] - x0>> : p \in inside} |->
                    img.px[<<q[1] + y0, q[2] + x0>>]]]

\* the crop without the + 1: image_array[y0:y1, x0:x1]
CropExclusive(img, y0, y1, x0, x1) == SubArray(img, y0, y1, x0, x1)

\* line 45: image_array[y0:y1+1, x0:x1+1]
CropInclusive(img, y0, y1, x0, x1) == SubArray(img, y0, y1 + 1, x0, x1 + 1)

crop_borders(image_array) ==
    LET mask == Mask(image_array)
    IN  IF mask = {} THEN image_array
        ELSE CropInclusive(image_array,
                           SetMin({p[1] : p \in mask}), SetMax({p[1] : p \in mask}),
                           SetMin({p[2] : p \in mask}), SetMax({p[2] : p \in mask}))

(***************************************************************************)
(* resize_with_padding: lines 47-75, on sizes <<width, height>>.           *)
(* The result is [err, size, new_size, paste_position]; err names the      *)
(* exception the call raises ("" when it returns).                         *)
(***************************************************************************)
\* the new size rounded to the nearest integer in place of truncated
NewSizeRounded(original_size, scale) ==
    << (FTrunc(FMulInt(2 * original_size[1], scale)) + 1) \div 2,
       (FTrunc(FMulInt(2 * original_size[2], scale)) + 1) \div 2 >>

\* line 63
NewSize(original_size, scale) ==
    << FTrunc(FMulInt(original_size[1], scale)),
       FTrunc(FMulInt(original_size[2], scale)) >>

Raised(e) == [err |-> e, size |-> <<0, 0>>, new_size |-> <<0, 0>>,
              paste_position |-> <<0, 0>>]

resize_with_padding(original_size, target_size) ==
    IF original_size[1] = 0 \/ original_size[2] = 0
    THEN Raised("ZeroDivisionError")                                  \* line 62
    ELSE LET scale    == FMin(FDivInt(target_size[1], original_size[1]),
                              FDivInt(target_size[2], original_size[2]))
             new_size == NewSize(original_size, scale)
         IN  IF new_size[1] < 1 \/ new_size[2] < 1
             THEN Raised("ValueError")        \* line 66: Image.resize refuses
             ELSE [err  |-> "",
                   size |-> target_size,                               \* line 69
                   new_size |-> new_size,
                   paste_position |->                                  \* line 72
                       << (target_size[1] - new_size[1]) \div 2,
                          (target_size[2] - new_size[2]) \div 2 >>]

(***************************************************************************)
(* Strings are sequences of one-character strings.                         *)
(***************************************************************************)
UpperCase == <<"A", "B", "C", "D", "E", "F", "G", "H", "I", "J", "K", "L", "M",
               "N", "O", "P", "Q", "R", "S", "T", "U", "V", "W", "X", "Y", "Z">>
LowerCase == <<"a", "b", "c", "d", "e", "f", "g", "h", "i", "j", "k", "l", "m",
               "n", "o", "p", "q", "r", "s", "t", "u", "v", "w", "x", "y", "z">>
Digits == <<"0", "1", "2", "3", "4", "5", "6", "7", "8", "9">>

\* str.lower()
StrLower(s) ==
    [i \in 1..Len(s) |->
        IF \E k \in 1..26 : UpperCase[k] = s[i]
        THEN LowerCase[CHOOSE k \in 1..26 : UpperCase[k] = s[i]]
        ELSE s[i]]

\* str.endswith(suffix)
EndsWith(s, suffix) ==
    /\ Len(suffix) <= Len(s)
    /\ SubSeq(s, Len(s) - Len(suffix) + 1, Len(s)) = suffix

\* the places where sub occurs in s
Occurrences(s, sub) ==
    {i \in 1..(Len(s) - Len(sub) + 1) : SubSeq(s, i, i + Len(sub) - 1) = sub}

\* s.split(sep)[0]: s up to the first occurrence of sep, all of s without one
SplitFirst(s, sep) ==
    IF Occurrences(s, sep) = {} THEN s
    ELSE SubSeq(s, 1, SetMin(Occurrences(s, sep)) - 1)

\* os.path.basename
Basename(path) ==
    IF Occurrences(path, <<"/">>) = {} THEN path
    ELSE SubSeq(path, SetMax(Occurrences(path, <<"/">>)) + 1, Len(path))

\* os.path.splitext(p)[0]: the last dot starts the extension unless only dots
\* come before it
SplitExtRoot(p) ==
    LET dots == Occurrences(p, <<".">>)
    IN  IF dots = {} THEN p
        ELSE LET d == SetMax(dots)
             IN  IF \E i \in 1..(d - 1) : p[i] # "." THEN SubSeq(p, 1, d - 1) ELSE p

\* os.path.dirname
Dirname(path) ==
    IF Occurrences(path, <<"/">>) = {} THEN <<>>
    ELSE SubSeq(path, 1, SetMax(Occurrences(path, <<"/">>)) - 1)

\* os.path.join of a directory and a name
PathJoin(dir, name) == dir \o <<"/">> \o name

\* os.path.relpath(path, start) for a path that is start or lies below it
CurDir == <<".">>
RelPath(path, start) ==
    IF path = start THEN CurDir ELSE SubSeq(path, Len(start) + 2, Len(path))

\* str() of an integer >= 0
RECURSIVE IntToStr(_)
IntToStr(n) ==
    IF n < 10 THEN <<Digits[n + 1]>>
    ELSE Append(IntToStr(n \div 10), Digits[(n % 10) + 1])

DotDicom  == <<".", "d", "i", "c", "o", "m">>
DotPng    == <<".", "p", "n", "g">>
LesionTag == <<"_", "l", "e", "s", "i", "o", "n", "_">>
IndexHtml == <<"i", "n", "d", "e", "x", ".", "h", "t", "m", "l">>

\* line 162
LesionFilename(image_id, idx) == image_id \o LesionTag \o IntToStr(idx) \o DotPng

(***************************************************************************)
(* Files written: [name, size], a later save under the same name replacing *)
(* the earlier one.  What a call did is [written, printed, reached,        *)
(* raised]: the files it saved, the lines it printed, the rows of the      *)
(* annotation table its loop reached, and whether it ended in its except.  *)
(***************************************************************************)
Save(files, name, size) == {f \in files : f.name # name} \cup {[name |-> name, size |-> size]}

RECURSIVE SaveAll(_, _)
SaveAll(files, saved) ==
    IF saved = <<>> THEN files
    ELSE SaveAll(Save(files, saved[1].name, saved[1].size), Tail(saved))

Said(msg, path) == [msg |-> msg, path |-> path]

(***************************************************************************)
(* The tree below output_root.  A directory is named by its path relative  *)
(* to output_root, "." for output_root itself; a file by its path relative *)
(* to output_root, the "./" of os.path.join(output_root, ".") resolved.    *)
(***************************************************************************)
\* the file os.path.join(output_root, rel, name)
OutPath(rel, name) == IF rel = CurDir THEN name ELSE PathJoin(rel, name)

ParentDir(rel) == IF Dirname(rel) = <<>> THEN CurDir ELSE Dirname(rel)

\* output_root/rel and the directories above it, up to output_root
RECURSIVE Ancestors(_)
Ancestors(rel) == IF rel = CurDir THEN {CurDir} ELSE {rel} \cup Ancestors(ParentDir(rel))

IsFile(files, path) == \E f \in files : f.name = path

\* os.makedirs(os.path.join(output_root, rel), exist_ok=True): the directory
\* and the missing ones above it are made; it raises (FileExistsError,
\* NotADirectoryError) when a file stands where a directory is wanted
makedirs(dirs, files, rel) ==
    IF \E d \in Ancestors(rel) : IsFile(files, d)
    THEN [raised |-> TRUE, dirs |-> dirs]
    ELSE [raised |-> FALSE, dirs |-> dirs \cup Ancestors(rel)]

\* shutil.copy(src, os.path.join(output_root, rel)): into the directory when
\* there is one, else to a file of that very name when its parent is a
\* directory, else it raises (FileNotFoundError, NotADirectoryError)
copy(dirs, files, name, rel) ==
    IF rel \in dirs
    THEN [raised |-> FALSE, name |-> OutPath(rel, name)]
    ELSE IF rel # CurDir /\ ParentDir(rel) \in dirs
    THEN [raised |-> FALSE, name |-> rel]
    ELSE [raised |-> TRUE, name |-> <<>>]

\* target_size: the default of process_dicom_folder, which main never overrides
DefaultTarget == <<512, 512>>

\* a cell of the table: <<v>> for the number v, <<>> for NaN (an empty cell)
NaN == <<>>
Num(v) == <<v>>
Box(xmin, ymin, xmax, ymax) == <<Num(xmin), Num(ymin), Num(xmax), Num(ymax)>>
NoBox == <<NaN, NaN, NaN, NaN>>

\* PIL refuses to encode an image with an empty side
Saveable(size) == size[1] >= 1 /\ size[2] >= 1

(***************************************************************************)
(* dicom_to_png: lines 77-114.  A file is [name, kind, pixel_array]; kind  *)
(* is "image", "nopixels" (no pixel_array attribute) or "corrupt" (dcmread *)
(* raises).                                                                *)
(***************************************************************************)
dicom_to_png(file, dicom_path, output_path, do_resize, nan) ==
    IF file.kind = "corrupt"
    THEN [written |-> <<>>, printed |-> <<Said("Error processing", dicom_path)>>,
          reached |-> {}, raised |-> TRUE]
    ELSE IF file.kind = "nopixels"
    THEN [written |-> <<>>, printed |-> <<Said("Skipping", dicom_path)>>,
          reached |-> {}, raised |-> FALSE]
    ELSE LET cropped_array == crop_borders(normalize(file.pixel_array, nan))
             image   == <<cropped_array.w, cropped_array.h>>
             resized == resize_with_padding(image, DefaultTarget)
             final   == IF do_resize THEN resized.size ELSE image
         IN  IF (do_resize /\ resized.err # "") \/ ~Saveable(final)
             THEN [written |-> <<>>, printed |-> <<Said("Error processing", dicom_path)>>,
                   reached |-> {}, raised |-> TRUE]
             ELSE [written |-> <<[name |-> output_path, size |-> final]>>,
                   printed |-> <<Said("Processed", dicom_path)>>,
                   reached |-> {}, raised |-> FALSE]

(***************************************************************************)
(* extract_lesions: lines 116-170.  A row of the annotation table is       *)
(* [image_id, box, split] with box = <<xmin, ymin, xmax, ymax>>, each a    *)
(* number or NaN; its index label is its place in the table, from 0.       *)
(***************************************************************************)
\* line 138: the places of the rows of this image, in table order
LesionRows(table, image_id) ==
    SelectSeq([i \in 1..Len(table) |-> i], LAMBDA i : table[i].image_id = image_id)

\* line 143
AnyNull(box) == \E k \in 1..4 : box[k] = NaN

\* lines 152-153: the size <<width, height>> of image_array[ymin:ymax, xmin:xmax]
LesionSize(img, box) ==
    LET xmin == box[1][1]                                     \* lines 146-149
        ymin == box[2][1]
        xmax == box[3][1]
        ymax == box[4][1]
    IN  << SliceLen(xmin, xmax, img.w), SliceLen(ymin, ymax, img.h) >>

\* lines 141-166: the loop from the k-th matching row on; an exception ends it
\* (line 164 raises FileNotFoundError when output_root is not there)
RECURSIVE LesionLoop(_, _, _, _, _, _, _, _)
LesionLoop(img, table, rows, k, image_id, do_resize, root_exists, done) ==
    IF k > Len(rows) THEN done
    ELSE LET i       == rows[k]
             box     == table[i].box
             seen    == [done EXCEPT !.reached = @ \cup {i}]
             region  == LesionSize(img, box)
             resized == resize_with_padding(region, DefaultTarget)
             final   == IF do_resize THEN resized.size ELSE region
             name    == LesionFilename(image_id, i - 1)
         IN  IF AnyNull(box)
             THEN LesionLoop(img, table, rows, k + 1, image_id, do_resize,
                             root_exists, seen)
             ELSE IF (do_resize /\ resized.err # "") \/ ~Saveable(final)
                     \/ ~root_exists
             THEN [seen EXCEPT !.raised = TRUE]
             ELSE LesionLoop(img, table, rows, k + 1, image_id, do_resize,
                     root_exists,
                     [seen EXCEPT
                        !.written = Append(@, [name |-> name, size |-> final]),
                        !.printed = Append(@, Said("Extracted lesion", name))])

extract_lesions(file, dicom_path, table, root_exists, do_resize, nan) ==
    IF file.kind = "corrupt"
    THEN [written |-> <<>>, reached |-> {}, raised |-> TRUE,
          printed |-> <<Said("Error extracting lesions", dicom_path)>>]
    ELSE IF file.kind = "nopixels"
    THEN [written |-> <<>>, reached |-> {}, raised |-> FALSE,
          printed |-> <<Said("Skipping", dicom_path)>>]
    ELSE LET image_array == normalize(file.pixel_array, nan)
             image_id    == SplitExtRoot(Basename(dicom_path))
             loop == LesionLoop(image_array, table, LesionRows(table, image_id), 1,
                                image_id, do_resize, root_exists,
                                [written |-> <<>>, printed |-> <<>>,
                                 reached |-> {}, raised |-> FALSE])
         IN  IF loop.raised
             THEN [loop EXCEPT !.printed =
                      Append(@, Said("Error extracting lesions", dicom_path))]
             ELSE loop

(***************************************************************************)
(* train_test_split.py.  The directories are [lesion, training, test]: the *)
(* names in lesion_dir (its two subdirectories among them) and the files   *)
(* in each subdirectory.                                                   *)
(***************************************************************************)
TrainingName == <<"t", "r", "a", "i", "n", "i", "n", "g">>
TestName     == <<"t", "e", "s", "t">>

\* a dictionary that keeps the first value of a key
DictSetDefault(d, key, value) == d @@ (key :> value)

\* dict(): a later pair with the same key replaces the earlier one
DictInsert(d, key, value) == (key :> value) @@ d

\* line 19: dict(zip(df["image_id"], df["split"]))
RECURSIVE DictZip(_, _, _)
DictZip(table, k, d) ==
    IF k > Len(table) THEN d
    ELSE DictZip(table, k + 1, DictInsert(d, table[k].image_id, table[k].split))

BuildSplitDict(table) == DictZip(table, 1, <<>>)

\* lines 24-34: "training", "test", "unknown" (the else branch, which prints)
\* or "absent" (image_id not in split_dict, which prints nothing)
Destination(dict, filename) ==
    LET image_id == SplitFirst(filename, LesionTag)
    IN  IF image_id \notin DOMAIN dict THEN "absent"
        ELSE IF dict[image_id] = "training" THEN "training"
        ELSE IF dict[image_id] = "test" THEN "test"
        ELSE "unknown"

\* a copy in place of the move: the file stays in lesion_dir
CopyFile(dirs, filename, dest) ==
    IF dest = "training" THEN [dirs EXCEPT !.training = @ \cup {filename}]
    ELSE [dirs EXCEPT !.test = @ \cup {filename}]

\* line 39: shutil.move of lesion_dir/filename into the partition directory
MoveFile(dirs, filename, dest) ==
    IF dest = "training"
    THEN [dirs EXCEPT !.lesion = @ \ {filename}, !.training = @ \cup {filename}]
    ELSE [dirs EXCEPT !.lesion = @ \ {filename}, !.test = @ \cup {filename}]

(***************************************************************************)
(* State.                                                                  *)
(*   pc, arg, ret         one call of a function: its argument and result  *)
(*   walk .. calls        process_dicom_folder (dicom_to_png.py): out_dirs *)
(*                        and out_files are the tree below output_root,    *)
(*                        calls is the record of what each call did        *)
(*   df .. crashed        the module body of train_test_split.py           *)
(*   stdout               what either script has printed                   *)
(***************************************************************************)
VARIABLES pc, arg, ret,
          walk, file_i, annotations_df, lesions_flag, apply_resize,
          out_dirs, out_files, calls,
          df, split_dict, lesion_dir, train_dir, test_dir, listing,
          phase, runs, moves, crashed,
          stdout

callVars  == <<pc, arg, ret>>
batchVars == <<walk, file_i, annotations_df, lesions_flag, apply_resize,
               out_dirs, out_files, calls>>
splitVars == <<df, split_dict, lesion_dir, train_dir, test_dir, listing,
               phase, runs, moves, crashed>>
vars == <<callVars, batchVars, splitVars, stdout>>

NoCall  == pc = "none" /\ arg = <<>> /\ ret = <<>>
NoBatch == /\ walk = <<>> /\ file_i = 1 /\ annotations_df = <<>>
           /\ lesions_flag = FALSE /\ apply_resize = FALSE
           /\ out_dirs = {} /\ out_files = {} /\ calls = <<>>
NoSplit == /\ df = <<>> /\ split_dict = <<>> /\ lesion_dir = {}
           /\ train_dir = {} /\ test_dir = {} /\ listing = {}
           /\ phase = "none" /\ runs = 0 /\ moves = <<>> /\ crashed = FALSE

(***************************************************************************)
(* Calls of the three image functions on bounded inputs.                   *)
(***************************************************************************)
MaxDim == 6
MaxTarget == 3
MaxRaw == 3
MaxSamples == 2

\* image sides: every small one, the 49 that 512 / 49 * 49 rounds below 512,
\* the sides of the specification's worked example, and a long thin one
Sides == (1..MaxDim) \cup {49, 601, 851, 1000}
TargetSides == (1..MaxTarget) \cup {512}

PadArgs == [original_size : Sides \X Sides, target_size : TargetSides \X TargetSides]

\* the subsets of S with at most k elements
RECURSIVE UpTo(_, _)
UpTo(S, k) ==
    IF k = 0 THEN {{}}
    ELSE LET T == UpTo(S, k - 1) IN T \cup {Q \cup {p} : Q \in T, p \in S}

\* the arrays of the given shapes with background bg and at most k
\* other samples, at rows ys and columns xs (counted from the end when negative)
Arrays(shapes, ys, xs, values, bgs, k) ==
    UNION { UNION { UNION { { [h |-> s[1], w |-> s[2], bg |-> bg, px |-> f] :
                              f \in [P -> values] } :
                P \in UpTo(({IF y < 0 THEN s[1] + y ELSE y : y \in ys} \cap (0..(s[1] - 1)))
                             \X ({IF x < 0 THEN s[2] + x ELSE x : x \in xs}
                                    \cap (0..(s[2] - 1))),
                           k) } :
            bg \in bgs } :
        s \in shapes }

RawValues == (0..MaxRaw) \cup {1000, 4095}
RawArrays(k) ==
    Arrays({<<1, 1>>, <<1, 3>>, <<2, 2>>}, {0, 1}, {0, 1, 2}, RawValues, RawValues, k)

\* samples on both sides of each threshold, at the rows and columns on both
\* sides of each corner rectangle's edge
GreyValues == {threshold, threshold + 1, white_threshold, white_threshold + 1}
EdgeRows == {CornerRows - 1, CornerRows, -CornerRows - 1, -CornerRows}
EdgeCols == {CornerCols - 1, CornerCols, -CornerCols - 1, -CornerCols}
GreyArrays(k) ==
    Arrays({<<1, 1>>, <<2 * CornerRows + 10, 1>>, <<1, 2 * CornerCols + 10>>,
            <<2 * CornerRows + 10, 2 * CornerCols + 10>>},
           EdgeRows, EdgeCols, GreyValues, {0}, k)
        \cup Arrays({<<1, 1>>, <<2, 3>>, <<CornerRows + 2, 3>>, <<2 * CornerRows + 2, 3>>},
                    {0}, {0}, GreyValues, {threshold + 1}, k)

\* what a NaN becomes in astype(np.uint8): C leaves the cast undefined (the
\* usual builds give 0).  One value is kept of each class crop_borders tells
\* apart: not above threshold, between the thresholds, above white_threshold.
NaNCast == {0, 100, 255}

CallReturns(f) == pc = f /\ pc' = "returned" /\ UNCHANGED <<arg, batchVars, splitVars, stdout>>

PadCall == /\ CallReturns("resize_with_padding")
           /\ ret' = resize_with_padding(arg.original_size, arg.target_size)

CropCall == /\ CallReturns("crop_borders")
            /\ ret' = crop_borders(arg)

NormalizeCall == /\ CallReturns("normalize")
                 /\ \E nan \in NaNCast : ret' = normalize(arg, nan)

InitCall(f, args) == /\ pc = f /\ arg \in args /\ ret = <<>>
                     /\ NoBatch /\ NoSplit /\ stdout = <<>>

SpecPad       == InitCall("resize_with_padding", PadArgs) /\ [][PadCall]_vars
SpecCrop      == InitCall("crop_borders", GreyArrays(MaxSamples)) /\ [][CropCall]_vars
SpecNormalize == InitCall("normalize", RawArrays(MaxSamples)) /\ [][NormalizeCall]_vars

(***************************************************************************)
(* process_dicom_folder: lines 172-197, over one directory whose files     *)
(* os.walk lists in the order of walk; output_root exists.  Output names   *)
(* are relative to output_root.                                            *)
(***************************************************************************)
MaxFiles == 2
MaxRows == 2
MaxRuns == 2

SeqsUpTo(S, n) == UNION {[1..k -> S] : k \in 0..n}

InputRoot == <<"i", "n">>

\* the end-to-end example of the specification: 1000 wide, 800 high, samples
\* 0..4095, and the tissue between rows 100..700 and columns 50..900
ExampleArray ==
    [h |-> 800, w |-> 1000, bg |-> 0,
     px |-> (<<100, 50>> :> 1000) @@ (<<700, 900>> :> 1000) @@ (<<400, 500>> :> 4095)]

FlatArray == [h |-> 4, w |-> 6, bg |-> 7, px |-> <<>>]

\* the input folder, a sub-folder of it and a sub-folder of that one
SubS == PathJoin(InputRoot, <<"s">>)
SubT == PathJoin(SubS, <<"t">>)

FolderFiles ==
    { [subdir |-> InputRoot, name |-> <<"a">> \o DotDicom, kind |-> "image",
       pixel_array |-> ExampleArray],
      [subdir |-> InputRoot, name |-> <<"b", ".", "D", "I", "C", "O", "M">>,
       kind |-> "image", pixel_array |-> FlatArray],
      [subdir |-> InputRoot, name |-> <<"c">> \o DotDicom, kind |-> "nopixels",
       pixel_array |-> <<>>],
      [subdir |-> InputRoot, name |-> <<"d">> \o DotDicom, kind |-> "corrupt",
       pixel_array |-> <<>>],
      [subdir |-> InputRoot, name |-> IndexHtml, kind |-> "other", pixel_array |-> <<>>],
      [subdir |-> SubS, name |-> <<"f">> \o DotDicom, kind |-> "image",
       pixel_array |-> FlatArray],
      [subdir |-> SubS, name |-> IndexHtml, kind |-> "other", pixel_array |-> <<>>],
      [subdir |-> SubT, name |-> <<"d">> \o DotDicom, kind |-> "corrupt",
       pixel_array |-> <<>>],
      [subdir |-> SubT, name |-> IndexHtml, kind |-> "other", pixel_array |-> <<>>] }

\* the files that os.walk (line 182) yields, at most n of them: top-down, a
\* folder's files before those of the folders below it, in any order within
\* one folder
Walks(n) == {s \in SeqsUpTo(FolderFiles, n) :
             \A i, j \in 1..Len(s) :
                i < j => s[i] # s[j] /\ Len(s[i].subdir) <= Len(s[j].subdir)}

\* boxes: none, inside both images, inverted (the specification's example),
\* across the right and bottom edge of the large image, and 600 wide and 1 high
Boxes == { NoBox, Box(1, 1, 3, 3), Box(10, 10, 5, 50),
           Box(990, 790, 1010, 810), Box(0, 0, 600, 1) }

\* the annotation tables of at most n rows
LesionTables(n) ==
    SeqsUpTo([image_id : {<<"a">>, <<"b">>}, box : Boxes, split : {"training"}], n)

IsDicom(name) == EndsWith(StrLower(name), DotDicom)

\* what the call for walk[file_i] did, and on to the next file
Record(did, dirs) ==
    /\ out_dirs' = dirs
    /\ out_files' = SaveAll(out_files, did.written)
    /\ stdout' = stdout \o did.printed
    /\ calls' = Append(calls, [file |-> file_i, written |-> {f.name : f \in Range(did.written)},
                               reached |-> did.reached, raised |-> did.raised])
    /\ file_i' = file_i + 1
    /\ UNCHANGED <<callVars, walk, annotations_df, lesions_flag, apply_resize, splitVars>>

Visiting == pc = "walk" /\ file_i <= Len(walk)

\* line 184
InputFilePath == PathJoin(walk[file_i].subdir, walk[file_i].name)

\* lines 189, 195
RelativePath == RelPath(walk[file_i].subdir, InputRoot)

\* an exception that no except catches leaves process_dicom_folder and the
\* program: the walk stops where it is and "Done!" is not printed
Abort ==
    /\ pc' = "aborted"
    /\ UNCHANGED <<arg, ret, batchVars, splitVars, stdout>>

\* line 187; output_root is not made on this path
ExtractLesionsStep ==
    /\ Visiting /\ IsDicom(walk[file_i].name) /\ lesions_flag
    /\ \E nan \in NaNCast :
          Record(extract_lesions(walk[file_i], InputFilePath, annotations_df,
                                 CurDir \in out_dirs, apply_resize, nan),
                 out_dirs)

\* lines 189-193; the makedirs of line 191 is outside every try
DicomToPngStep ==
    /\ Visiting /\ IsDicom(walk[file_i].name) /\ ~lesions_flag
    /\ LET made == makedirs(out_dirs, out_files, RelativePath)
       IN  IF made.raised THEN Abort
           ELSE \E nan \in NaNCast :
                   Record(dicom_to_png(walk[file_i], InputFilePath,
                                       OutPath(RelativePath,
                                               SplitExtRoot(walk[file_i].name) \o DotPng),
                                       apply_resize, nan),
                          made.dirs)

\* lines 194-197; the copy of line 197 is outside every try and nothing
\* makes output_subdir before it
CopyIndexStep ==
    /\ Visiting /\ ~IsDicom(walk[file_i].name)
    /\ walk[file_i].name = IndexHtml /\ ~lesions_flag
    /\ LET copied == copy(out_dirs, out_files, IndexHtml, RelativePath)
       IN  IF copied.raised THEN Abort
           ELSE Record([written |-> <<[name |-> copied.name, size |-> <<>>]>>,
                        printed |-> <<>>, reached |-> {}, raised |-> FALSE],
                       out_dirs)

\* any other file
SkipFileStep ==
    /\ Visiting /\ ~IsDicom(walk[file_i].name)
    /\ ~(walk[file_i].name = IndexHtml /\ ~lesions_flag)
    /\ Record([written |-> <<>>, printed |-> <<>>, reached |-> {}, raised |-> FALSE],
              out_dirs)

\* line 227
WalkDone ==
    /\ pc = "walk" /\ file_i > Len(walk)
    /\ pc' = "done"
    /\ stdout' = Append(stdout, Said("Done!", <<>>))
    /\ UNCHANGED <<arg, ret, batchVars, splitVars>>

\* lines 199-220: the arguments are parsed and, for --lesions, the table is
\* read; when pd.read_csv raises, the error is printed and the program exits
\* (pc = "exit") with no file processed
InitBatch ==
    /\ arg = <<>> /\ ret = <<>>
    /\ walk \in Walks(MaxFiles) /\ file_i = 1
    /\ lesions_flag \in BOOLEAN /\ apply_resize \in BOOLEAN
    /\ \/ /\ pc = "walk"
          /\ annotations_df \in (IF lesions_flag THEN LesionTables(MaxRows) ELSE {<<>>})
          /\ stdout = (IF lesions_flag
                       THEN <<Said("Loaded finding_annotations.csv", <<>>)>>
                       ELSE <<>>)
       \/ /\ pc = "exit"
          /\ lesions_flag
          /\ annotations_df = <<>>
          /\ stdout = <<Said("Error loading finding_annotations.csv", <<>>)>>
    \* output_root is there, empty, or is not there
    /\ out_dirs \in {{}, {CurDir}}
    /\ out_files = {} /\ calls = <<>>
    /\ NoSplit

NextBatch == \/ ExtractLesionsStep \/ DicomToPngStep \/ CopyIndexStep
             \/ SkipFileStep \/ WalkDone

SpecBatch == InitBatch /\ [][NextBatch]_vars

(***************************************************************************)
(* train_test_split.py: a run of the script, one file of the listing per   *)
(* step.  A run may be interrupted between two files, and the script run   *)
(* again, at most MaxRuns times in all.  moves counts the moves of each    *)
(* file.                                                                   *)
(***************************************************************************)
LesionPngs == { <<"a">> \o LesionTag \o <<"0">> \o DotPng,
                <<"b">> \o LesionTag \o <<"1">> \o DotPng,
                <<"c">> \o LesionTag \o <<"2">> \o DotPng }
LesionDirFiles == LesionPngs \cup { <<"n", ".", "t", "x", "t">> }

SplitTables(n) ==
    SeqsUpTo([image_id : {<<"a">>, <<"b">>}, box : {NoBox},
              split : {"training", "test", "unknown"}], n)

Dirs == [lesion |-> lesion_dir, training |-> train_dir, test |-> test_dir]

\* lines 10-22: read the table, make the directories, build the dictionary,
\* list lesion_dir
StartRun ==
    /\ phase \in {"start", "done", "killed"} /\ runs < MaxRuns
    /\ runs' = runs + 1
    /\ split_dict' = BuildSplitDict(df)
    /\ lesion_dir' = lesion_dir \cup {TrainingName, TestName}
    /\ listing' = lesion_dir'
    /\ phase' = "loop"
    /\ UNCHANGED <<df, train_dir, test_dir, moves, crashed, stdout, callVars, batchVars>>

\* lines 22-40, for one filename of the listing
LoopStep ==
    /\ phase = "loop"
    /\ \E filename \in listing :
          LET dest  == Destination(split_dict, filename)
              moved == MoveFile(Dirs, filename, dest)
          IN  /\ listing' = listing \ {filename}
              /\ IF ~EndsWith(filename, DotPng) \/ dest = "absent"
                 THEN UNCHANGED <<lesion_dir, train_dir, test_dir, moves, crashed,
                                  phase, stdout>>
                 ELSE IF dest = "unknown"
                 THEN /\ stdout' = Append(stdout, Said("Split unknown", filename))
                      /\ UNCHANGED <<lesion_dir, train_dir, test_dir, moves, crashed, phase>>
                 ELSE IF filename \notin lesion_dir
                 \* shutil.move raises for a source that is not there
                 THEN /\ crashed' = TRUE /\ phase' = "crashed"
                      /\ UNCHANGED <<lesion_dir, train_dir, test_dir, moves, stdout>>
                 ELSE /\ lesion_dir' = moved.lesion
                      /\ train_dir' = moved.training
                      /\ test_dir' = moved.test
                      /\ moves' = [moves EXCEPT ![filename] = @ + 1]
                      /\ stdout' = Append(stdout, Said("Moved", filename))
                      /\ UNCHANGED <<crashed, phase>>
    /\ UNCHANGED <<df, split_dict, runs, callVars, batchVars>>

\* line 42
FinishRun ==
    /\ phase = "loop" /\ listing = {}
    /\ phase' = "done"
    /\ stdout' = Append(stdout, Said("Finished moving lesion images.", <<>>))
    /\ UNCHANGED <<df, split_dict, lesion_dir, train_dir, test_dir, listing, runs,
                   moves, crashed, callVars, batchVars>>

\* the run is interrupted (KeyboardInterrupt, a killed process) where the for
\* of line 22 takes the next name: before the first file, between two files,
\* or after the last one and before the print of line 42
Kill ==
    /\ phase = "loop"
    /\ phase' = "killed"
    /\ listing' = {}
    /\ UNCHANGED <<df, split_dict, lesion_dir, train_dir, test_dir, runs,
                   moves, crashed, stdout, callVars, batchVars>>

\* the run is interrupted between the move of line 36 and the print of
\* line 39: the file is in its partition directory and nothing is printed
KillAfterMove ==
    /\ phase = "loop"
    /\ \E filename \in listing :
          LET dest  == Destination(split_dict, filename)
              moved == MoveFile(Dirs, filename, dest)
          IN  /\ EndsWith(filename, DotPng)
              /\ dest \in {"training", "test"}
              /\ filename \in lesion_dir
              /\ lesion_dir' = moved.lesion
              /\ train_dir' = moved.training
              /\ test_dir' = moved.test
              /\ moves' = [moves EXCEPT ![filename] = @ + 1]
    /\ phase' = "killed"
    /\ listing' = {}
    /\ UNCHANGED <<df, split_dict, runs, crashed, stdout, callVars, batchVars>>

\* the run is interrupted in lines 10-21, before the listing of line 22:
\* before the makedirs of line 16, between the two makedirs, after both and
\* before the dictionary of line 19, or after the dictionary
KillAtStart ==
    /\ phase \in {"start", "done", "killed"} /\ runs < MaxRuns
    /\ runs' = runs + 1
    /\ \E at \in {"read_csv", "makedirs", "dict", "listdir"} :
          /\ lesion_dir' = lesion_dir \cup
                               (IF at = "read_csv" THEN {}
                                ELSE IF at = "makedirs" THEN {TrainingName}
                                ELSE {TrainingName, TestName})
          /\ split_dict' = (IF at = "listdir" THEN BuildSplitDict(df) ELSE <<>>)
    /\ phase' = "killed"
    /\ listing' = {}
    /\ UNCHANGED <<df, train_dir, test_dir, moves, crashed, stdout, callVars, batchVars>>

InitSplit ==
    /\ NoCall /\ NoBatch /\ stdout = <<>>
    /\ df \in SplitTables(MaxRows)
    /\ split_dict = <<>>
    /\ lesion_dir = LesionDirFiles /\ train_dir = {} /\ test_dir = {}
    /\ listing = {}
    /\ phase = "start" /\ runs = 0
    /\ moves = [f \in LesionDirFiles |-> 0]
    /\ crashed = FALSE

NextSplit == StartRun \/ LoopStep \/ FinishRun \/ Kill \/ KillAfterMove \/ KillAtStart

SpecSplit == InitSplit /\ [][NextSplit]_vars

Returned == pc = "returned"

(***************************************************************************)
(* resize_with_padding                                                     *)
(***************************************************************************)
\* C1: for every input of width >= 1 and height >= 1 and every target,
\* resize_with_padding returns, and returns an image of exactly the target size
PadReturnsTargetSize ==
    Returned => ret.err = "" /\ ret.size = arg.target_size

ExampleCall ==
    /\ Returned
    /\ arg.original_size = <<851, 601>>
    /\ arg.target_size = <<512, 512>>

PadAbove(r) == r.paste_position[2]
PadBelow(r) == r.size[2] - r.paste_position[2] - r.new_size[2]

\* C9 as stated: 851 x 601 padded to 512 x 512 is resampled to 512 x 362 and
\* pasted with 75 px above and 75 px below
PadExampleRounds ==
    ExampleCall => /\ ret.new_size = <<512, 362>>
                   /\ PadAbove(ret) = 75
                   /\ PadBelow(ret) = 75

\* C9 as amended: the new size is truncated, so the image is resampled to
\* 512 x 361 and pasted with 75 px above and 76 px below
PadExampleTruncates ==
    ExampleCall => /\ ret.err = ""
                   /\ ret.size = <<512, 512>>
                   /\ ret.new_size = <<512, 361>>
                   /\ ret.paste_position = <<0, 75>>
                   /\ PadAbove(ret) = 75
                   /\ PadBelow(ret) = 76

PadExampleReached == ExampleCall /\ ret.err = ""

(***************************************************************************)
(* crop_borders                                                            *)
(***************************************************************************)
\* C7: crop_borders returns an image with 1 <= height <= input height and
\* 1 <= width <= input width, and the input itself when no pixel survives the
\* corner masking, the bright-pixel removal and the threshold
CropKeepsImage ==
    Returned => /\ 1 <= ret.h /\ ret.h <= arg.h
                /\ 1 <= ret.w /\ ret.w <= arg.w
                /\ Mask(arg) = {} => ret = arg

\* the fallback taken for an image that does hold samples above the threshold,
\* all of them in a corner rectangle or too bright
CropFallbackReached ==
    /\ Returned
    /\ Mask(arg) = {}
    /\ arg.h > 1 /\ arg.w > 1
    /\ \E p \in DOMAIN arg.px : arg.px[p] > threshold
    /\ ret = arg

(***************************************************************************)
(* normalisation                                                           *)
(***************************************************************************)
\* C10: with max > min every normalised sample is floor((v - min) * 255 /
\* (max - min)), lies in 0..255, and is 255 for the maximum and 0 for the minimum
NormalizedRange ==
    LET mn == SetMin(Samples(arg))
        mx == SetMax(Samples(arg))
    IN  Returned /\ mx > mn =>
            \A p \in Positions(arg) :
                /\ At(ret, p) \in UInt8
                /\ At(ret, p) = ((At(arg, p) - mn) * 255) \div (mx - mn)
                /\ At(arg, p) = mx => At(ret, p) = 255
                /\ At(arg, p) = mn => At(ret, p) = 0

NormalizedThreeLevels ==
    /\ Returned
    /\ Cardinality(Samples(arg)) >= 3
    /\ \E p \in Positions(arg) : At(ret, p) \notin {0, 255}

(***************************************************************************)
(* extract_lesions and process_dicom_folder                                *)
(***************************************************************************)
ImageIdOf(file) == SplitExtRoot(file.name)

\* a box inside the image with xmax > xmin and ymax > ymin
ValidBox(box, img) ==
    /\ ~AnyNull(box)
    /\ 0 <= box[1][1] /\ box[1][1] < box[3][1] /\ box[3][1] <= img.w
    /\ 0 <= box[2][1] /\ box[2][1] < box[4][1] /\ box[4][1] <= img.h

Flat(img) == Cardinality(Samples(img)) = 1

LesionCalls == {k \in 1..Len(calls) : lesions_flag /\ walk[calls[k].file].kind = "image"}

\* C2: extract_lesions writes exactly one lesion file per record of the image
\* with a non-null, valid box, and none for any other record
LesionsExactlyValidBoxes ==
    \A k \in LesionCalls :
        LET file == walk[calls[k].file]
        IN  calls[k].written =
                { LesionFilename(ImageIdOf(file), i - 1) :
                    i \in { j \in 1..Len(annotations_df) :
                              /\ annotations_df[j].image_id = ImageIdOf(file)
                              /\ ValidBox(annotations_df[j].box, file.pixel_array) } }

\* C3: a failing record stops neither the later records of its image nor the
\* later files: every call reaches every record of its image, the walk ends
\* with a call made for every file, and no uncaught error ends it early
FailuresAreIsolated ==
    /\ \A k \in LesionCalls :
          calls[k].reached =
              Range(LesionRows(annotations_df, ImageIdOf(walk[calls[k].file])))
    /\ pc = "done" => Len(calls) = Len(walk)
    /\ pc # "aborted"

\* C8: for a flat image (max = min) the call fails and writes no file, on the
\* whole-image path and on the lesion path
FlatImageFails ==
    \A k \in 1..Len(calls) :
        LET file == walk[calls[k].file]
        IN  file.kind = "image" /\ Flat(file.pixel_array) =>
                calls[k].raised /\ calls[k].written = {}

(***************************************************************************)
(* train_test_split.py                                                     *)
(***************************************************************************)
RowsOf(id) == {i \in 1..Len(df) : df[i].image_id = id}
Ids == {df[i].image_id : i \in 1..Len(df)}

\* the destination one complete run gives a file of the initial lesion_dir
Partition(f) ==
    IF ~EndsWith(f, DotPng) THEN "stays"
    ELSE LET d == Destination(BuildSplitDict(df), f)
         IN  IF d \in {"training", "test"} THEN d ELSE "stays"

\* C4: a run after a complete or an interrupted run raises nothing, moves no
\* file a second time, and ends with each directory holding what one complete
\* run gives it
SplitIsIdempotent ==
    /\ ~crashed
    /\ \A f \in LesionDirFiles : moves[f] <= 1
    /\ phase = "done" =>
          /\ train_dir = {f \in LesionDirFiles : Partition(f) = "training"}
          /\ test_dir = {f \in LesionDirFiles : Partition(f) = "test"}
          /\ lesion_dir = {f \in LesionDirFiles : Partition(f) = "stays"}
                             \cup {TrainingName, TestName}

Printed(msg) == {i \in 1..Len(stdout) : stdout[i].msg = msg}

\* a second run completed after an interrupted first one that had moved a file
RerunAfterPartialRun ==
    /\ phase = "done" /\ runs = 2
    /\ Cardinality(Printed("Finished moving lesion images.")) = 1
    /\ \E i \in Printed("Moved") : \E j \in Printed("Moved") : i < j
    /\ train_dir # {} /\ test_dir # {}

\* C5 as stated: for an image_id with several records, split_dict holds the
\* split of the first of them
SplitDictTakesFirst ==
    phase \in {"loop", "done"} =>
        \A id \in Ids : split_dict[id] = df[SetMin(RowsOf(id))].split

\* C5 as amended: split_dict holds the split of the last of them
SplitDictTakesLast ==
    phase \in {"loop", "done"} =>
        /\ DOMAIN split_dict = Ids
        /\ \A id \in Ids : split_dict[id] = df[SetMax(RowsOf(id))].split

DisagreeingRecordsMapped ==
    /\ phase \in {"loop", "done"}
    /\ \E i, j \in 1..Len(df) :
          /\ i < j /\ df[i].image_id = df[j].image_id /\ df[i].split # df[j].split
          /\ split_dict[df[i].image_id] = df[j].split

\* C6: after a run, a lesion file whose image_id maps to training or test is
\* in that directory, and every other lesion file is reported and still in
\* lesion_dir
SplitterMovesOrReports ==
    phase = "done" =>
        \A f \in LesionPngs :
            LET d == Destination(split_dict, f)
            IN  /\ d = "training" => f \in train_dir /\ f \notin lesion_dir
                /\ d = "test" => f \in test_dir /\ f \notin lesion_dir
                /\ d \in {"unknown", "absent"} =>
                      /\ f \in lesion_dir
                      /\ \E i \in Printed("Split unknown") : stdout[i].path = f
====
